---- MODULE Spec2Model ----
(***************************************************************************)
(* A model of darling's DataSet (src/darling/_dataset.py): the scan held   *)
(* by the data set, its in-place background subtraction, the background    *)
(* estimator, the mask estimator and the sequential compile_layers loop.   *)
(*                                                                         *)
(* A raw volume is a record [shape, flat]: flat is the C-ordered sequence   *)
(* of the uint16 counts, shape is <<R, C, M1, M2>>.                        *)
(***************************************************************************)
EXTENDS Integers, Naturals, Sequences, FiniteSets

VARIABLES
    data,            \* self.data: the raw volume (with the buffer holding it), or Unset
    motors,          \* self.motors, or Unset
    mean,            \* self.mean
    covariance,      \* self.covariance
    mean_3d,         \* self.mean_3d
    covariance_3d,   \* self.covariance_3d
    op,              \* the DataSet method in progress
    pc,              \* the position inside that method
    scan_ids,        \* compile_layers argument
    threshold,       \* compile_layers argument
    i,               \* compile_layers loop index (1-based: layer i is scan_ids[i])
    l_mean_3d,       \* compile_layers local list mean_3d
    l_covariance_3d, \* compile_layers local list covariance_3d
    ret,             \* the value the reader returned, not yet bound to self.data
    err,             \* the exception that left the method in progress, or None
    alive,           \* the raw buffers that are referenced (not yet released)
    readerCalls,     \* the scan ids the reader was invoked with during this call
    readerRaised,    \* the exception the reader raised during this call, or None
    fresh,           \* TRUE iff self.mean was computed after the latest load
    params,          \* the arguments of a method called on its own (with the data it found)
    value,           \* estimate_background: the value returned
    noise,           \* estimate_background: the working noise sample
    round,           \* estimate_background: rounds of the rejection loop done
    mask             \* estimate_mask: the working mask

vars == <<data, motors, mean, covariance, mean_3d, covariance_3d, op, pc,
          scan_ids, threshold, i, l_mean_3d, l_covariance_3d, ret, err,
          alive, readerCalls, readerRaised, fresh, value, noise, round,
          mask, params>>

\* Python's None where a name is bound to None or to an object: the empty
\* tuple, and the object x as the one-tuple Some(x).
None == <<>>
Some(x) == <<x>>

\* no exception
NoError == "None"

\* self.data before the first load_scan (the attribute does not exist yet)
Unset == [buf |-> 0, shape |-> <<>>, flat |-> <<>>]

\* a float not-a-number: 0/0
NaN == <<0, 0>>

\* the threshold argument of compile_layers: None, "auto" or a number
ThresholdNone == [kind |-> "None", v |-> 0]
ThresholdAuto == [kind |-> "auto", v |-> 0]
ThresholdOf(n) == [kind |-> "int", v |-> n]

(***************************************************************************)
(* Bounds of the model.                                                    *)
(***************************************************************************)
MaxLayers == 2      \* longest scan_ids handed to compile_layers
MaxLen == 3         \* longest buffer handed to subtract on its own
sample_size == 3    \* 40000 in estimate_background, scaled to the model's volumes
MaskRows == 3       \* detector rows of the volumes handed to estimate_mask
MaskCols == 3       \* detector columns of the volumes handed to estimate_mask
MaxIter == 1        \* largest erosion_iterations / dilation_iterations
MaxDet == 2         \* most detector rows / columns of a scan in the h5 file

(***************************************************************************)
(* Program constants.                                                      *)
(***************************************************************************)
UINT16 == 65536     \* np.uint16 wraps modulo 2^16
ROUNDS == 20        \* for i in range(20)
SIGMA1000 == 3891   \* 3.891, in thousandths

(***************************************************************************)
(* Arithmetic helpers.                                                     *)
(***************************************************************************)
Abs(x) == IF x < 0 THEN -x ELSE x

RECURSIVE Gcd(_, _)
Gcd(a, b) == IF b = 0 THEN Abs(a) ELSE Gcd(b, a % b)

\* A float result, kept exact: the reduced fraction num/den with den > 0.
Frac(num, den) ==
    LET g == Gcd(num, den)
    IN  <<num \div g, den \div g>>

RECURSIVE SumSeq(_)
SumSeq(s) == IF s = <<>> THEN 0 ELSE Head(s) + SumSeq(Tail(s))

Range(s) == {s[k] : k \in DOMAIN s}

\* np.sort: the ascending rearrangement of s.
RECURSIVE np_sort(_)
np_sort(s) ==
    IF s = <<>> THEN <<>>
    ELSE LET k == CHOOSE k \in DOMAIN s : \A j \in DOMAIN s : s[k] <= s[j]
             rest == [j \in 1..(Len(s) - 1) |-> IF j < k THEN s[j] ELSE s[j + 1]]
         IN  <<s[k]>> \o np_sort(rest)

\* a < b * sqrt(v) for integers a >= 0, b > 0, v >= 0, without forming a^2 or b^2 * v:
\* with a = q*b + r it is q^2 + (2*q*b*r + r^2) / b^2 < v.
LessThanTimesSqrt(a, b, v) ==
    LET q == a \div b
        r == a % b
    IN  IF q * q >= v THEN FALSE
        ELSE IF (q + 1) * (q + 1) <= v THEN TRUE
        ELSE 2 * q * b * r + r * r < b * b * (v - q * q)

(***************************************************************************)
(* DataSet.subtract (lines 308-316) on a uint16 buffer.                    *)
(***************************************************************************)
\* self.data.clip(value, None, out=self.data): elements below value become value.
ClipNothing(flat, v) == flat

Clip(flat, v) == [k \in DOMAIN flat |-> IF flat[k] < v THEN v ELSE flat[k]]

\* self.data -= value: uint16 arithmetic, modulo 2^16.
ISub(flat, v) == [k \in DOMAIN flat |-> (flat[k] - v) % UINT16]

SubtractFlat(flat, v) == ISub(Clip(flat, v), v)

(***************************************************************************)
(* DataSet.estimate_background (lines 318-336).                            *)
(***************************************************************************)
\* np.random.permutation(sample_size): the orders of 0 .. sample_size-1.
Permutations ==
    {p \in [1..sample_size -> 0..(sample_size - 1)] :
        \A a, b \in 1..sample_size : a # b => p[a] # p[b]}

\* self.data.flat[index] raises IndexError when an index is out of bounds.
FlatIndexOk(flat, index) == \A k \in DOMAIN index : index[k] < Len(flat)

\* np.sort(self.data.flat[index])
Sample(flat, index) == np_sort([k \in DOMAIN index |-> flat[index[k] + 1]])

\* twice np.median of a sorted, non-empty sample (the mean of the two middle
\* elements when the length is even).
Median2(s) ==
    LET n == Len(s)
    IN  IF n % 2 = 1 THEN 2 * s[(n + 1) \div 2]
        ELSE s[n \div 2] + s[n \div 2 + 1]

\* n^2 times the variance np.std squares: n * sum(x^2) - sum(x)^2.
VarN2(s) ==
    LET n == Len(s)
        sq == [k \in DOMAIN s |-> s[k] * s[k]]
    IN  n * SumSeq(sq) - SumSeq(s) * SumSeq(s)

\* np.abs(x) < mu + 2 * 3.891 * std, that is 2*(|x| - mu) * n * 250 < 3891 * sqrt(n^2 var)
Keeps(x, s) ==
    LET d2 == 2 * Abs(x) - Median2(s)
    IN  IF d2 < 0 THEN TRUE
        ELSE LessThanTimesSqrt(d2 * Len(s) * 250, SIGMA1000, VarN2(s))

RECURSIVE Filter(_, _)
Filter(s, ref) ==
    IF s = <<>> THEN <<>>
    ELSE (IF Keeps(Head(s), ref) THEN <<Head(s)>> ELSE <<>>) \o Filter(Tail(s), ref)

\* One round of the loop body: noise = noise[np.abs(noise) < mu + 2*3.891*std].
\* On an empty sample mu and std are nan, every comparison is False.
RejectRound(s) == IF s = <<>> THEN <<>> ELSE Filter(s, s)

RECURSIVE Reject(_, _)
Reject(s, n) == IF n = 0 THEN s ELSE Reject(RejectRound(s), n - 1)

\* np.max(noise): ValueError on a zero-size array.
MaxOf(s) == CHOOSE x \in Range(s) : \A y \in Range(s) : y <= x

NpMaxUnchecked(s) ==
    IF s = <<>> THEN [raised |-> NoError, value |-> 0]
    ELSE [raised |-> NoError, value |-> MaxOf(s)]

NpMax(s) ==
    IF s = <<>> THEN [raised |-> "ValueError", value |-> 0]
    ELSE [raised |-> NoError, value |-> MaxOf(s)]

\* estimate_background as a whole, for the permutation index.
EstimateBackground(flat, index) ==
    IF ~FlatIndexOk(flat, index) THEN [raised |-> "IndexError", value |-> 0]
    ELSE NpMax(Reject(Sample(flat, index), ROUNDS))

(***************************************************************************)
(* Volumes: shape <<R, C, M1, M2>> and the C-ordered counts.               *)
(***************************************************************************)
NPix(d) == d.shape[1] * d.shape[2]

\* the counts of the pixel with row-major index p (from 0) at motor point (a, b) (from 0)
At(d, p, a, b) == d.flat[((p * d.shape[3] + a) * d.shape[4] + b) + 1]

\* the motor grid points (a, b) in C order
MotorGrid(d) ==
    [k \in 1..(d.shape[3] * d.shape[4]) |->
        <<(k - 1) \div d.shape[4], (k - 1) % d.shape[4]>>]

(***************************************************************************)
(* darling.properties.moments as section 4.1 of the specification gives   *)
(* it: per pixel the weighted mean and covariance of the motor             *)
(* coordinates, not-a-number where the total weight is zero.               *)
(***************************************************************************)
ShapesAgree(d, m) ==
    /\ Len(m) = Len(d.shape) - 2
    /\ \A k \in DOMAIN m : Len(m[k]) = d.shape[2 + k]

PixelMoments(d, m, p) ==
    LET G == MotorGrid(d)
        wt(k) == At(d, p, G[k][1], G[k][2])
        x1(k) == m[1][G[k][1] + 1]
        x2(k) == m[2][G[k][2] + 1]
        w == SumSeq([k \in DOMAIN G |-> wt(k)])
        s1 == SumSeq([k \in DOMAIN G |-> x1(k) * wt(k)])
        s2 == SumSeq([k \in DOMAIN G |-> x2(k) * wt(k)])
        s11 == SumSeq([k \in DOMAIN G |-> x1(k) * x1(k) * wt(k)])
        s12 == SumSeq([k \in DOMAIN G |-> x1(k) * x2(k) * wt(k)])
        s22 == SumSeq([k \in DOMAIN G |-> x2(k) * x2(k) * wt(k)])
        c11 == Frac(w * s11 - s1 * s1, w * w)
        c12 == Frac(w * s12 - s1 * s2, w * w)
        c22 == Frac(w * s22 - s2 * s2, w * w)
    IN  IF w = 0 THEN [mean |-> <<NaN, NaN>>,
                       covariance |-> <<<<NaN, NaN>>, <<NaN, NaN>>>>]
        ELSE [mean |-> <<Frac(s1, w), Frac(s2, w)>>,
              covariance |-> <<<<c11, c12>>, <<c12, c22>>>>]

PropertiesMoments(d, m) ==
    IF ~ShapesAgree(d, m)
    THEN [raised |-> "ShapeMismatch", mean |-> <<>>, covariance |-> <<>>]
    ELSE [raised |-> NoError,
          mean |-> [p \in 1..NPix(d) |-> PixelMoments(d, m, p - 1).mean],
          covariance |-> [p \in 1..NPix(d) |-> PixelMoments(d, m, p - 1).covariance]]

(***************************************************************************)
(* DataSet.integrate (lines 350-360) and DataSet.estimate_mask             *)
(* (lines 362-390).  A 2D map or mask is the row-major sequence of its     *)
(* R*C entries.                                                            *)
(***************************************************************************)
\* np.sum(self.data, axis=(2, 3), out=out) with out of shape (R, C)
Integrate(d) ==
    [p \in 1..NPix(d) |->
        SumSeq([k \in DOMAIN MotorGrid(d) |->
                    At(d, p - 1, MotorGrid(d)[k][1], MotorGrid(d)[k][2])])]

\* self.integrate() > threshold
Binarize(d, t) == [p \in 1..NPix(d) |-> Integrate(d)[p] > t]

\* the mask value at (r, c), False outside the image (border_value=0)
MaskAt(m, R, C, r, c) ==
    /\ r \in 0..(R - 1)
    /\ c \in 0..(C - 1)
    /\ m[r * C + c + 1]

\* one pass of binary_erosion with structure=np.ones((2, 2)): the structure's
\* centre is its element (1, 1), so the pixel needs (r-1..r, c-1..c) set.
Erode1(m, R, C) ==
    [p \in 1..(R * C) |->
        LET r == (p - 1) \div C
            c == (p - 1) % C
        IN  \A dr \in {-1, 0} : \A dc \in {-1, 0} : MaskAt(m, R, C, r + dr, c + dc)]

\* one pass of binary_dilation with structure=np.ones((2, 2)): the reflected
\* structure with its origin moved by -1, so any of (r..r+1, c..c+1) sets the pixel.
Dilate1(m, R, C) ==
    [p \in 1..(R * C) |->
        LET r == (p - 1) \div C
            c == (p - 1) % C
        IN  \E dr \in {0, 1} : \E dc \in {0, 1} : MaskAt(m, R, C, r + dr, c + dc)]

RECURSIVE ErodeUntilStable(_, _, _)
ErodeUntilStable(m, R, C) ==
    IF Erode1(m, R, C) = m THEN m ELSE ErodeUntilStable(Erode1(m, R, C), R, C)

RECURSIVE ErodeTimes(_, _, _, _)
ErodeTimes(m, R, C, n) ==
    IF n = 0 THEN m ELSE ErodeTimes(Erode1(m, R, C), R, C, n - 1)

\* scipy.ndimage.binary_erosion(mask, structure, iterations): "if iterations is
\* less than 1, the erosion is repeated until the result does not change anymore"
BinaryErosion(m, R, C, iterations) ==
    IF iterations < 1 THEN ErodeUntilStable(m, R, C)
    ELSE ErodeTimes(m, R, C, iterations)

RECURSIVE DilateUntilStable(_, _, _)
DilateUntilStable(m, R, C) ==
    IF Dilate1(m, R, C) = m THEN m ELSE DilateUntilStable(Dilate1(m, R, C), R, C)

RECURSIVE DilateTimes(_, _, _, _)
DilateTimes(m, R, C, n) ==
    IF n = 0 THEN m ELSE DilateTimes(Dilate1(m, R, C), R, C, n - 1)

\* scipy.ndimage.binary_dilation(mask, structure, iterations), same rule for
\* iterations < 1
BinaryDilation(m, R, C, iterations) ==
    IF iterations < 1 THEN DilateUntilStable(m, R, C)
    ELSE DilateTimes(m, R, C, iterations)

\* background pixels joined to the outside of the image by 4-connected steps
RECURSIVE Outside(_, _, _, _)
Outside(m, R, C, seen) ==
    LET next ==
            [p \in 1..(R * C) |->
                LET r == (p - 1) \div C
                    c == (p - 1) % C
                IN  /\ ~m[p]
                    /\ \/ seen[p]
                       \/ r = 0 \/ r = R - 1 \/ c = 0 \/ c = C - 1
                       \/ MaskAt(seen, R, C, r - 1, c)
                       \/ MaskAt(seen, R, C, r + 1, c)
                       \/ MaskAt(seen, R, C, r, c - 1)
                       \/ MaskAt(seen, R, C, r, c + 1)]
    IN  IF next = seen THEN seen ELSE Outside(m, R, C, next)

\* scipy.ndimage.binary_fill_holes: everything but the background that the
\* border reaches
BinaryFillHoles(m, R, C) ==
    LET out == Outside(m, R, C, [p \in 1..(R * C) |-> FALSE])
    IN  [p \in 1..(R * C) |-> ~out[p]]

(***************************************************************************)
(* The reader handed to DataSet.__init__: a callable that returns          *)
(* (data, motors) for the scan ids it holds and raises for the others.     *)
(***************************************************************************)
Store ==
    [x \in {"1.1", "2.1", "bad"} |->
        CASE x = "1.1" -> [shape |-> <<1, 2, 2, 2>>,
                           flat |-> <<1, 0, 0, 3, 0, 2, 2, 0>>,
                           motors |-> <<<<0, 1>>, <<0, 1>>>>]
          [] x = "2.1" -> [shape |-> <<1, 2, 2, 2>>,
                           flat |-> <<0, 0, 0, 0, 5, 1, 1, 1>>,
                           motors |-> <<<<0, 1>>, <<0, 1>>>>]
          [] x = "bad" -> [shape |-> <<1, 2, 2, 2>>,
                           flat |-> <<2, 2, 1, 1, 0, 0, 1, 0>>,
                           motors |-> <<<<0, 1, 2>>, <<0, 1>>>>]]

ReaderIds == DOMAIN Store \cup {"missing"}

ReaderErrors == {"KeyError", "OSError"}

Thresholds == {ThresholdNone, ThresholdAuto, ThresholdOf(0), ThresholdOf(1)}

RECURSIVE SeqsUpTo(_, _)
SeqsUpTo(S, n) ==
    IF n = 0 THEN {<<>>}
    ELSE LET shorter == SeqsUpTo(S, n - 1)
         IN  shorter \cup {Append(q, x) : q \in shorter, x \in S}

\* the scan_ids arguments the caller hands to compile_layers
CompileInputs == SeqsUpTo(ReaderIds, MaxLayers)

\* the attributes an instance of DataSet has: its methods and what __init__
\* and load_scan set
DataSetAttributes ==
    {"reader", "plot", "mean", "covariance", "mean_3d", "covariance_3d",
     "data", "motors", "load_scan", "subtract", "estimate_background",
     "moments", "integrate", "estimate_mask", "compile_layers", "to_paraview"}

\* a fresh buffer: the first one that is not in use
NewBuf == CHOOSE b \in 1..(Cardinality(alive) + 1) : b \notin alive

\* no method of the data set is in progress and the caller is about to make
\* its next call
Returned == pc = "idle"

(***************************************************************************)
(* DataSet.__init__ (lines 279-283): data and motors are not set.          *)
(***************************************************************************)
PureIdle ==
    /\ params = <<>>
    /\ value = 0
    /\ noise = <<>>
    /\ round = 0
    /\ mask = <<>>

NoCall ==
    /\ scan_ids = <<>>
    /\ threshold = ThresholdNone
    /\ i = 1
    /\ l_mean_3d = <<>>
    /\ l_covariance_3d = <<>>
    /\ ret = None
    /\ err = NoError
    /\ readerCalls = <<>>
    /\ readerRaised = NoError

NoMoments ==
    /\ mean = None
    /\ covariance = None
    /\ mean_3d = None
    /\ covariance_3d = None
    /\ fresh = FALSE

Init ==
    /\ data = Unset
    /\ motors = <<>>
    /\ mean = None
    /\ covariance = None
    /\ mean_3d = None
    /\ covariance_3d = None
    /\ op = "none"
    /\ pc = "idle"
    /\ scan_ids = <<>>
    /\ threshold = ThresholdNone
    /\ i = 1
    /\ l_mean_3d = <<>>
    /\ l_covariance_3d = <<>>
    /\ ret = None
    /\ err = NoError
    /\ alive = {}
    /\ readerCalls = <<>>
    /\ readerRaised = NoError
    /\ fresh = FALSE
    /\ PureIdle

pureVars == <<params, value, noise, round, mask>>
attrVars == <<data, motors, mean, covariance, mean_3d, covariance_3d, fresh>>
callVars == <<op, scan_ids, threshold>>
localVars == <<i, l_mean_3d, l_covariance_3d>>
readerVars == <<readerCalls, readerRaised>>

\* An exception leaves the method in progress: its frame and locals are gone,
\* the attributes of the data set stay as they are.
RaiseSaving(e) ==
    /\ err' = e
    /\ pc' = "failed"
    /\ l_mean_3d' = <<>>
    /\ l_covariance_3d' = <<>>
    /\ ret' = None
    /\ mean_3d' = IF op = "compile_layers" THEN Some(l_mean_3d) ELSE mean_3d
    /\ covariance_3d' =
          IF op = "compile_layers" THEN Some(l_covariance_3d) ELSE covariance_3d
    /\ UNCHANGED <<data, motors, mean, covariance, fresh, op, scan_ids, threshold,
                   i, alive, pureVars>>

Raise(e) ==
    /\ err' = e
    /\ pc' = "failed"
    /\ l_mean_3d' = <<>>
    /\ l_covariance_3d' = <<>>
    /\ ret' = None
    /\ UNCHANGED <<attrVars, callVars, i, alive, pureVars>>

\* the caller invokes compile_layers(reader_args, scan_ids, threshold): lines 415-417
CallCompileLayers ==
    /\ Returned
    /\ \E ids \in CompileInputs, t \in Thresholds :
          /\ scan_ids' = ids
          /\ threshold' = t
          /\ pc' = IF ids = <<>> THEN "return" ELSE "load"
    /\ op' = "compile_layers"
    /\ i' = 1
    /\ l_mean_3d' = <<>>
    /\ l_covariance_3d' = <<>>
    /\ err' = NoError
    /\ readerCalls' = <<>>
    /\ readerRaised' = NoError
    /\ UNCHANGED <<attrVars, ret, alive, pureVars>>

\* the caller invokes load_scan(args, scan_id)
CallLoadScan ==
    /\ Returned
    /\ \E sid \in ReaderIds : scan_ids' = <<sid>>
    /\ op' = "load_scan"
    /\ pc' = "load"
    /\ i' = 1
    /\ err' = NoError
    /\ readerCalls' = <<>>
    /\ readerRaised' = NoError
    /\ UNCHANGED <<attrVars, threshold, l_mean_3d, l_covariance_3d, ret, alive, pureVars>>

(***************************************************************************)
(* DataSet.load_scan (lines 303-306): the right-hand side self.reader(...)  *)
(* is evaluated first, then self.data and self.motors are rebound.         *)
(***************************************************************************)
\* the reader builds the volume of scan_ids[i] and returns it
ReaderReturns ==
    /\ pc = "load"
    /\ scan_ids[i] \in DOMAIN Store
    /\ readerCalls' = Append(readerCalls, scan_ids[i])
    /\ ret' = Some([buf |-> NewBuf, scan |-> Store[scan_ids[i]]])
    /\ alive' = alive \cup {NewBuf}
    /\ pc' = "bind"
    /\ UNCHANGED <<attrVars, callVars, localVars, err, readerRaised, pureVars>>

RetryReaderError(e) ==
    /\ pc' = "load"
    /\ UNCHANGED <<attrVars, callVars, localVars, ret, err, alive, pureVars>>

\* the exception of a failing reader passes through load_scan and, in
\* compile_layers, through the loop (no try statement anywhere): lines 418-430
PropagateReaderError(e) == Raise(e)

\* the reader fails: the scan id is missing, or the read hits an I/O error
ReaderRaises ==
    /\ pc = "load"
    /\ readerCalls' = Append(readerCalls, scan_ids[i])
    /\ \E e \in ReaderErrors :
          /\ e = "KeyError" <=> scan_ids[i] \notin DOMAIN Store
          /\ readerRaised' = e
          /\ PropagateReaderError(e)

\* self.data, self.motors = <returned tuple>: the previous buffer loses its
\* last reference here, after the new one was built
BindValidating ==
    /\ pc = "bind"
    /\ IF ShapesAgree(ret[1].scan, ret[1].scan.motors)
       THEN /\ data' = [buf |-> ret[1].buf, shape |-> ret[1].scan.shape,
                        flat |-> ret[1].scan.flat]
            /\ motors' = ret[1].scan.motors
            /\ alive' = alive \ {data.buf}
            /\ ret' = None
            /\ fresh' = FALSE
            /\ pc' = IF op = "compile_layers" THEN "threshold" ELSE "done"
            /\ UNCHANGED <<mean, covariance, mean_3d, covariance_3d, callVars,
                           localVars, err, pureVars>>
       ELSE /\ alive' = alive \ {ret[1].buf}
            /\ err' = "ShapeMismatch"
            /\ pc' = "failed"
            /\ ret' = None
            /\ l_mean_3d' = <<>>
            /\ l_covariance_3d' = <<>>
            /\ UNCHANGED <<attrVars, callVars, i, pureVars>>
    /\ UNCHANGED readerVars

BindResetting ==
    /\ pc = "bind"
    /\ data' = [buf |-> ret[1].buf, shape |-> ret[1].scan.shape,
                flat |-> ret[1].scan.flat]
    /\ motors' = ret[1].scan.motors
    /\ alive' = alive \ {data.buf}
    /\ ret' = None
    /\ fresh' = FALSE
    /\ mean' = None
    /\ covariance' = None
    /\ pc' = IF op = "compile_layers" THEN "threshold" ELSE "done"
    /\ UNCHANGED <<mean_3d, covariance_3d, callVars, localVars, err,
                   readerVars, pureVars>>

Bind ==
    /\ pc = "bind"
    /\ data' = [buf |-> ret[1].buf, shape |-> ret[1].scan.shape,
                flat |-> ret[1].scan.flat]
    /\ motors' = ret[1].scan.motors
    /\ alive' = alive \ {data.buf}
    /\ ret' = None
    /\ fresh' = FALSE
    /\ pc' = IF op = "compile_layers" THEN "threshold" ELSE "done"
    /\ UNCHANGED <<mean, covariance, mean_3d, covariance_3d, callVars, localVars,
                   err, readerVars, pureVars>>

(***************************************************************************)
(* compile_layers, the thresholding step (lines 432-451).                  *)
(***************************************************************************)
\* self.threshold(v): the attribute lookup comes first
CallThreshold(v) ==
    IF "threshold" \in DataSetAttributes
    THEN /\ data' = [data EXCEPT !.flat = SubtractFlat(data.flat, v)]
         /\ pc' = "moments"
         /\ UNCHANGED <<motors, mean, covariance, mean_3d, covariance_3d, fresh,
                        callVars, localVars, ret, err, alive, pureVars>>
    ELSE Raise("AttributeError")

\* the variant "if threshold:" in place of "if threshold is not None:": 0 is
\* skipped like None
SkipThresholdFalsy ==
    /\ pc = "threshold"
    /\ threshold \in {ThresholdNone, ThresholdOf(0)}
    /\ pc' = "moments"
    /\ UNCHANGED <<attrVars, callVars, localVars, ret, err, alive, readerVars, pureVars>>

\* threshold is None: nothing is done
SkipThreshold ==
    /\ pc = "threshold"
    /\ threshold = ThresholdNone
    /\ pc' = "moments"
    /\ UNCHANGED <<attrVars, callVars, localVars, ret, err, alive, readerVars, pureVars>>

\* threshold == "auto": _threshold = self.estimate_background(); self.threshold(_threshold)
AutoThreshold ==
    /\ pc = "threshold"
    /\ threshold = ThresholdAuto
    /\ \E index \in Permutations :
          LET r == EstimateBackground(data.flat, index)
          IN  IF r.raised # NoError THEN Raise(r.raised) ELSE CallThreshold(r.value)
    /\ UNCHANGED readerVars

\* any other threshold: self.threshold(threshold)
FixedThreshold ==
    /\ pc = "threshold"
    /\ threshold \notin {ThresholdNone, ThresholdAuto}
    /\ CallThreshold(threshold.v)
    /\ UNCHANGED readerVars

(***************************************************************************)
(* DataSet.moments (lines 338-348), called by compile_layers (line 456) or *)
(* by the caller.                                                          *)
(***************************************************************************)
MomentsBody(next) ==
    LET r == PropertiesMoments(data, motors)
    IN  IF r.raised # NoError THEN Raise(r.raised)
        ELSE /\ mean' = Some(r.mean)
             /\ covariance' = Some(r.covariance)
             /\ fresh' = TRUE
             /\ pc' = next
             /\ UNCHANGED <<data, motors, mean_3d, covariance_3d, callVars,
                            localVars, ret, err, alive, pureVars>>

ComputeMoments ==
    /\ pc = "moments"
    /\ MomentsBody("append")
    /\ UNCHANGED readerVars

\* mean_3d.append(mean); covariance_3d.append(covariance): lines 464-465, and
\* the loop moves on to the next scan id
AppendLayer ==
    /\ pc = "append"
    /\ l_mean_3d' = Append(l_mean_3d, mean[1])
    /\ l_covariance_3d' = Append(l_covariance_3d, covariance[1])
    /\ i' = i + 1
    /\ pc' = IF i < Len(scan_ids) THEN "load" ELSE "return"
    /\ UNCHANGED <<attrVars, callVars, ret, err, alive, readerVars, pureVars>>

\* a compile_layers that extends the stacks of an earlier call
ReturnLayersExtending ==
    /\ pc = "return"
    /\ mean_3d' = IF mean_3d = None THEN Some(l_mean_3d)
                  ELSE Some(mean_3d[1] \o l_mean_3d)
    /\ covariance_3d' = IF covariance_3d = None THEN Some(l_covariance_3d)
                        ELSE Some(covariance_3d[1] \o l_covariance_3d)
    /\ l_mean_3d' = <<>>
    /\ l_covariance_3d' = <<>>
    /\ pc' = "done"
    /\ UNCHANGED <<data, motors, mean, covariance, fresh, callVars, i, ret, err,
                   alive, readerVars, pureVars>>

\* self.mean_3d = np.array(mean_3d); self.covariance_3d = np.array(covariance_3d);
\* return: lines 474-480
ReturnLayers ==
    /\ pc = "return"
    /\ mean_3d' = Some(l_mean_3d)
    /\ covariance_3d' = Some(l_covariance_3d)
    /\ l_mean_3d' = <<>>
    /\ l_covariance_3d' = <<>>
    /\ pc' = "done"
    /\ UNCHANGED <<data, motors, mean, covariance, fresh, callVars, i, ret, err,
                   alive, readerVars, pureVars>>

(***************************************************************************)
(* The caller's own call of moments().                                     *)
(***************************************************************************)
CallMoments ==
    /\ Returned
    /\ data # Unset
    /\ op' = "moments"
    /\ LET r == PropertiesMoments(data, motors)
       IN  IF r.raised # NoError
           THEN /\ err' = r.raised
                /\ pc' = "failed"
                /\ UNCHANGED <<mean, covariance, fresh>>
           ELSE /\ err' = NoError
                /\ pc' = "done"
                /\ mean' = Some(r.mean)
                /\ covariance' = Some(r.covariance)
                /\ fresh' = TRUE
    /\ UNCHANGED <<data, motors, mean_3d, covariance_3d, scan_ids, threshold,
                   localVars, ret, alive, readerVars, pureVars>>

\* the caller takes the result (or the exception) of the call and goes on: the
\* frame of the call, with its arguments, is gone
CallerContinues ==
    /\ pc \in {"done", "failed"}
    /\ pc' = "idle"
    /\ op' = "none"
    /\ scan_ids' = <<>>
    /\ threshold' = ThresholdNone
    /\ i' = 1
    /\ err' = NoError
    /\ readerCalls' = <<>>
    /\ readerRaised' = NoError
    /\ UNCHANGED <<attrVars, l_mean_3d, l_covariance_3d, ret, alive, pureVars>>

Next ==
    \/ CallCompileLayers
    \/ CallLoadScan
    \/ ReaderReturns
    \/ ReaderRaises
    \/ Bind
    \/ SkipThreshold
    \/ AutoThreshold
    \/ FixedThreshold
    \/ ComputeMoments
    \/ AppendLayer
    \/ ReturnLayers
    \/ CallMoments
    \/ CallerContinues

Spec == Init /\ [][Next]_vars

(***************************************************************************)
(* subtract(value) called on its own on a loaded uint16 buffer.            *)
(***************************************************************************)
\* counts and values at both ends of the uint16 range
UInt16Values == {0, 1, 2, UINT16 - 2, UINT16 - 1}

SubtractInit ==
    /\ \E n \in 1..MaxLen : \E f \in [1..n -> UInt16Values] : \E v \in UInt16Values :
          /\ data = [buf |-> 1, shape |-> <<1, 1, n, 1>>, flat |-> f]
          /\ params = [flat |-> f, value |-> v]
    /\ motors = <<>>
    /\ alive = {1}
    /\ op = "subtract"
    /\ pc = "clip"
    /\ NoMoments
    /\ NoCall
    /\ value = 0
    /\ noise = <<>>
    /\ round = 0
    /\ mask = <<>>

\* line 315: self.data.clip(value, None, out=self.data)
SubtractClip ==
    /\ op = "subtract"
    /\ pc = "clip"
    /\ data' = [data EXCEPT !.flat = Clip(data.flat, params.value)]
    /\ pc' = "isub"
    /\ UNCHANGED <<motors, mean, covariance, mean_3d, covariance_3d, fresh, callVars,
                   localVars, ret, err, alive, readerVars, pureVars>>

\* line 316: self.data -= value
SubtractISub ==
    /\ op = "subtract"
    /\ pc = "isub"
    /\ data' = [data EXCEPT !.flat = ISub(data.flat, params.value)]
    /\ pc' = "done"
    /\ UNCHANGED <<motors, mean, covariance, mean_3d, covariance_3d, fresh, callVars,
                   localVars, ret, err, alive, readerVars, pureVars>>

SubtractNext == SubtractClip \/ SubtractISub

SubtractSpec == SubtractInit /\ [][SubtractNext]_vars

(***************************************************************************)
(* estimate_background() called on its own, one step per statement and per *)
(* round of the rejection loop.                                            *)
(***************************************************************************)
NoiseValues == {0, 1, 2, 9}

BackgroundInit ==
    /\ \E n \in (sample_size - 1)..(sample_size + 1) : \E f \in [1..n -> NoiseValues] :
          /\ data = [buf |-> 1, shape |-> <<1, 1, n, 1>>, flat |-> f]
          /\ params = [flat |-> f]
    /\ motors = <<>>
    /\ alive = {1}
    /\ op = "estimate_background"
    /\ pc = "sample"
    /\ NoMoments
    /\ NoCall
    /\ value = 0
    /\ noise = <<>>
    /\ round = 0
    /\ mask = <<>>

bgFrame == <<attrVars, callVars, localVars, ret, alive, readerVars, params, mask>>

\* lines 326-330: the sample is drawn, sorted and copied
BackgroundSample ==
    /\ op = "estimate_background"
    /\ pc = "sample"
    /\ \E index \in Permutations :
          IF FlatIndexOk(data.flat, index)
          THEN /\ noise' = Sample(data.flat, index)
               /\ pc' = "loop"
               /\ err' = err
          ELSE /\ noise' = noise
               /\ pc' = "failed"
               /\ err' = "IndexError"
    /\ UNCHANGED <<bgFrame, value, round>>

\* lines 331-334: one round of the rejection loop
BackgroundRound ==
    /\ op = "estimate_background"
    /\ pc = "loop"
    /\ round < ROUNDS
    /\ noise' = RejectRound(noise)
    /\ round' = round + 1
    /\ UNCHANGED <<bgFrame, value, pc, err>>

\* lines 335-336: background = np.max(noise); return background
BackgroundMax ==
    /\ op = "estimate_background"
    /\ pc = "loop"
    /\ round = ROUNDS
    /\ LET r == NpMax(noise)
       IN  IF r.raised # NoError
           THEN /\ pc' = "failed"
                /\ err' = r.raised
                /\ value' = value
           ELSE /\ pc' = "done"
                /\ err' = err
                /\ value' = r.value
    /\ UNCHANGED <<bgFrame, noise, round>>

BackgroundNext == BackgroundSample \/ BackgroundRound \/ BackgroundMax

BackgroundSpec == BackgroundInit /\ [][BackgroundNext]_vars

(***************************************************************************)
(* estimate_mask(threshold, erosion_iterations, dilation_iterations,       *)
(* fill_holes) called on its own, one step per statement.                  *)
(***************************************************************************)
\* the counts of one detector pixel over its 1 x 2 motor grid
PixelCounts == {<<0, 0>>, <<1, 1>>}

MaskThresholds == {0, 2}

MaskShape == <<MaskRows, MaskCols, 1, 2>>

\* the C-ordered volume whose pixel p has the counts px[p]
VolumeOf(px) == [k \in 1..(2 * Len(px)) |-> px[(k + 1) \div 2][2 - (k % 2)]]

MaskInit ==
    /\ \E px \in [1..(MaskRows * MaskCols) -> PixelCounts] :
          data = [buf |-> 1, shape |-> MaskShape, flat |-> VolumeOf(px)]
    /\ \E t \in MaskThresholds, e \in 0..MaxIter, d \in 0..MaxIter, h \in BOOLEAN :
          params = [threshold |-> t, erosion_iterations |-> e,
                    dilation_iterations |-> d, fill_holes |-> h]
    /\ motors = <<<<0>>, <<0, 1>>>>
    /\ alive = {1}
    /\ op = "estimate_mask"
    /\ pc = "binarize"
    /\ NoMoments
    /\ NoCall
    /\ value = 0
    /\ noise = <<>>
    /\ round = 0
    /\ mask = <<>>

maskFrame == <<attrVars, callVars, localVars, ret, err, alive, readerVars, params,
               value, noise, round>>

\* line 381: mask = self.integrate() > threshold
MaskBinarize ==
    /\ op = "estimate_mask"
    /\ pc = "binarize"
    /\ mask' = Binarize(data, params.threshold)
    /\ pc' = "erode"
    /\ UNCHANGED maskFrame

\* lines 382-384
MaskErode ==
    /\ op = "estimate_mask"
    /\ pc = "erode"
    /\ mask' = BinaryErosion(mask, data.shape[1], data.shape[2], params.erosion_iterations)
    /\ pc' = "dilate"
    /\ UNCHANGED maskFrame

\* lines 385-387
MaskDilate ==
    /\ op = "estimate_mask"
    /\ pc = "dilate"
    /\ mask' = BinaryDilation(mask, data.shape[1], data.shape[2],
                              params.dilation_iterations)
    /\ pc' = "fill"
    /\ UNCHANGED maskFrame

\* lines 388-390
MaskFillReturn ==
    /\ op = "estimate_mask"
    /\ pc = "fill"
    /\ mask' = IF params.fill_holes
               THEN BinaryFillHoles(mask, data.shape[1], data.shape[2])
               ELSE mask
    /\ pc' = "done"
    /\ UNCHANGED maskFrame

MaskNext == MaskBinarize \/ MaskErode \/ MaskDilate \/ MaskFillReturn

MaskSpec == MaskInit /\ [][MaskNext]_vars

(***************************************************************************)
(* MosaScan.read_scan (src/darling/reader.py, lines 76-114) read on its    *)
(* own.  An array is a record [shape, flat] with flat in C order.  The h5   *)
(* file holds, per scan, the image stack of shape (K, H, W) and one        *)
(* recorded value per frame for each of the two motors; motor values are    *)
(* integers in hundredths.                                                 *)
(***************************************************************************)
RECURSIVE Prod(_)
Prod(shape) == IF shape = <<>> THEN 1 ELSE Head(shape) * Prod(Tail(shape))

\* the multi-index (from 0) of the C-order position k (from 0)
RECURSIVE Unravel(_, _)
Unravel(k, shape) ==
    IF shape = <<>> THEN <<>>
    ELSE LET p == Prod(Tail(shape))
         IN  <<k \div p>> \o Unravel(k % p, Tail(shape))

\* the C-order position (from 0) of a multi-index
RECURSIVE Ravel(_, _)
Ravel(idx, shape) ==
    IF idx = <<>> THEN 0
    ELSE Head(idx) * Prod(Tail(shape)) + Ravel(Tail(idx), Tail(shape))

\* ndarray.swapaxes(x - 1, y - 1): axes are counted from 1 here
SwapAxes(arr, x, y) ==
    LET shape == [arr.shape EXCEPT ![x] = arr.shape[y], ![y] = arr.shape[x]]
    IN  [shape |-> shape,
         flat |-> [k \in 1..Prod(shape) |->
                     LET idx == Unravel(k - 1, shape)
                         src == [idx EXCEPT ![x] = idx[y], ![y] = idx[x]]
                     IN  arr.flat[Ravel(src, arr.shape) + 1]]]

\* np.round(x, p) of a value in hundredths, p in 0..2: to the nearest multiple
\* of 10^(2-p), a tie to the even multiple
NpRound(x, p) ==
    LET unit == IF p = 0 THEN 100 ELSE IF p = 1 THEN 10 ELSE 1
        q == x \div unit
        r == x % unit
    IN  IF 2 * r < unit THEN q * unit
        ELSE IF 2 * r > unit THEN (q + 1) * unit
        ELSE IF q % 2 = 0 THEN q * unit ELSE (q + 1) * unit

\* np.unique: the distinct values, ascending
RECURSIVE SortedSeq(_)
SortedSeq(S) ==
    IF S = {} THEN <<>>
    ELSE LET lo == CHOOSE x \in S : \A y \in S : x <= y
         IN  <<lo>> \o SortedSeq(S \ {lo})

NpUnique(s) == SortedSeq(Range(s))

\* lines 94-98: motors = [np.unique(np.round(m, p)) for p, m in zip(...)]
ReadMotors(file, motor_precision) ==
    [k \in 1..Len(file.motors) |->
        NpUnique([f \in DOMAIN file.motors[k] |->
                     NpRound(file.motors[k][f], motor_precision[k])])]

\* the bounds lo:hi of a slice over an axis of length n, 0 <= lo, 0 <= hi
SliceLen(lo, hi, n) ==
    LET a == IF lo > n THEN n ELSE lo
        b == IF hi > n THEN n ELSE hi
    IN  IF b > a THEN b - a ELSE 0

H5SliceAll(file, roi) ==
    [shape |-> <<file.frames, file.rows, file.cols>>, flat |-> file.image]

\* a read that takes the whole detector whatever the roi
H5SliceIgnoringRoi(file, roi) ==
    [shape |-> <<file.frames, file.rows, file.cols>>, flat |-> file.image]

\* lines 102-106: [:, r1:r2, c1:c2] when roi is truthy, [:, :, :] otherwise
H5Slice(file, roi) ==
    IF roi = <<>> THEN H5SliceAll(file, roi)
    ELSE LET rows == SliceLen(roi[1], roi[2], file.rows)
             cols == SliceLen(roi[3], roi[4], file.cols)
             shape == <<file.frames, rows, cols>>
         IN  [shape |-> shape,
              flat |-> [k \in 1..Prod(shape) |->
                          LET idx == Unravel(k - 1, shape)
                          IN  file.image[Ravel(<<idx[1], roi[1] + idx[2], roi[3] + idx[3]>>,
                                               <<file.frames, file.rows, file.cols>>) + 1]]]

\* lines 99, 108-110: the target shape of data.reshape
ReshapeTarget(arr, mot) ==
    [k \in 1..Len(mot) |-> Len(mot[k])] \o <<arr.shape[2], arr.shape[3]>>

\* ndarray.reshape raises ValueError when the sizes differ
ReshapeOk(arr, mot) == Prod(ReshapeTarget(arr, mot)) = Prod(arr.shape)

Reshape(arr, mot) == [shape |-> ReshapeTarget(arr, mot), flat |-> arr.flat]

\* read_scan as a whole
ReadScan(file, motor_precision, roi) ==
    LET mot == ReadMotors(file, motor_precision)
        arr == H5Slice(file, roi)
    IN  IF ~ReshapeOk(arr, mot)
        THEN [raised |-> "ValueError", shape |-> <<>>, flat |-> <<>>, motors |-> mot]
        ELSE LET d == SwapAxes(SwapAxes(Reshape(arr, mot), 1, 3), 2, 4)
             IN  [raised |-> NoError, shape |-> d.shape, flat |-> d.flat,
                  motors |-> mot]

\* the motor grids m x n of the scans in the file
GridShapes == {<<1, 2>>, <<2, 2>>, <<2, 3>>}

\* the recorded motor positions wobble by a hundredth around the grid
Jitter(f) == (f % 3) - 1

\* a scan of K = m*n frames of H x W pixels; every pixel holds its own
\* position in the stack, so that the place an element ends up in shows
\* where it came from
H5Scan(g, H, W) ==
    [frames |-> g[1] * g[2],
     rows |-> H,
     cols |-> W,
     image |-> [k \in 1..(g[1] * g[2] * H * W) |-> k - 1],
     motors |-> <<[f \in 1..(g[1] * g[2]) |->
                      10 * (((f - 1) \div g[2]) + 1) + Jitter(f - 1)],
                  [f \in 1..(g[1] * g[2]) |->
                      10 * (((f - 1) % g[2]) + 1) + Jitter(f)]>>]

\* motor_precision: one decimal absorbs the wobble, two decimals keep it
Precisions == {<<1, 1>>, <<2, 2>>}

\* roi=None, or (r1, r2, c1, c2)
Rois(H, W) ==
    {<<>>} \cup {<<r1, r2, c1, c2>> : r1 \in 0..H, r2 \in 0..(H + 1),
                                      c1 \in 0..W, c2 \in 0..(W + 1)}

ReaderInit ==
    /\ \E g \in GridShapes, H \in 1..MaxDet, W \in 1..MaxDet, mp \in Precisions :
          \E roi \in Rois(H, W) :
              params = [file |-> H5Scan(g, H, W), motor_precision |-> mp, roi |-> roi]
    /\ data = Unset
    /\ motors = <<>>
    /\ alive = {}
    /\ op = "read_scan"
    /\ pc = "motors"
    /\ NoMoments
    /\ NoCall
    /\ value = 0
    /\ noise = <<>>
    /\ round = 0
    /\ mask = <<>>

readFrame == <<data, mean, covariance, mean_3d, covariance_3d, fresh, callVars,
               localVars, alive, readerVars, params, value, noise, round, mask>>

\* lines 94-99
ReadScanMotors ==
    /\ op = "read_scan"
    /\ pc = "motors"
    /\ motors' = ReadMotors(params.file, params.motor_precision)
    /\ pc' = "slice"
    /\ UNCHANGED <<readFrame, ret, err>>

\* lines 102-106
ReadScanData ==
    /\ op = "read_scan"
    /\ pc = "slice"
    /\ ret' = Some(H5Slice(params.file, params.roi))
    /\ pc' = "reshape"
    /\ UNCHANGED <<readFrame, motors, err>>

\* lines 108-110
ReadScanReshape ==
    /\ op = "read_scan"
    /\ pc = "reshape"
    /\ IF ReshapeOk(ret[1], motors)
       THEN /\ ret' = Some(Reshape(ret[1], motors))
            /\ pc' = "swap"
            /\ err' = err
       ELSE /\ ret' = None
            /\ pc' = "failed"
            /\ err' = "ValueError"
    /\ UNCHANGED <<readFrame, motors>>

\* line 111: data.swapaxes(0, 2)
ReadScanSwap02 ==
    /\ op = "read_scan"
    /\ pc = "swap"
    /\ ret' = Some(SwapAxes(ret[1], 1, 3))
    /\ pc' = "swap2"
    /\ UNCHANGED <<readFrame, motors, err>>

\* lines 112-114: data.swapaxes(1, -1); return data, motors
ReadScanSwap13Return ==
    /\ op = "read_scan"
    /\ pc = "swap2"
    /\ ret' = Some(SwapAxes(ret[1], 2, Len(ret[1].shape)))
    /\ pc' = "done"
    /\ UNCHANGED <<readFrame, motors, err>>

ReaderNext ==
    \/ ReadScanMotors
    \/ ReadScanData
    \/ ReadScanReshape
    \/ ReadScanSwap02
    \/ ReadScanSwap13Return

ReaderSpec == ReaderInit /\ [][ReaderNext]_vars

(***************************************************************************)
(* integrate() (lines 350-360) called on its own on a 4D or a 5D volume.   *)
(***************************************************************************)
\* the shape of np.sum(self.data, axis=(2, 3)): axes 2 and 3 are removed
SumAxes23Shape(shape) == <<shape[1], shape[2]>> \o SubSeq(shape, 5, Len(shape))

\* np.sum(self.data, axis=(2, 3), out=out): ValueError when out has not the
\* shape of the reduction, else out is filled and returned
NpSumAxes23(d, out) ==
    IF SumAxes23Shape(d.shape) # out.shape
    THEN [raised |-> "ValueError", shape |-> <<>>, flat |-> <<>>]
    ELSE [raised |-> NoError, shape |-> out.shape, flat |-> Integrate(d)]

\* volumes with two and with three motor dimensions
IntegrateShapes ==
    {<<1, 2, 2, 1>>, <<2, 1, 1, 2>>, <<1, 1, 2, 2>>, <<2, 2, 1, 1>>,
     <<1, 2, 1, 1, 2>>, <<1, 1, 2, 1, 2>>, <<2, 1, 1, 2, 1>>}

IntegrateCounts == {0, 1, UINT16 - 1}

IntegrateInit ==
    /\ \E sh \in IntegrateShapes : \E f \in [1..Prod(sh) -> IntegrateCounts] :
          /\ data = [buf |-> 1, shape |-> sh, flat |-> f]
          /\ params = [flat |-> f]
    /\ motors = <<>>
    /\ alive = {1}
    /\ op = "integrate"
    /\ pc = "alloc"
    /\ NoMoments
    /\ NoCall
    /\ value = 0
    /\ noise = <<>>
    /\ round = 0
    /\ mask = <<>>

integrateFrame == <<attrVars, callVars, localVars, alive, readerVars, pureVars>>

\* lines 356-358: out = np.zeros((self.data.shape[0], self.data.shape[1]), np.float32)
IntegrateAlloc ==
    /\ op = "integrate"
    /\ pc = "alloc"
    /\ ret' = Some([shape |-> <<data.shape[1], data.shape[2]>>,
                    flat |-> [p \in 1..(data.shape[1] * data.shape[2]) |-> 0]])
    /\ pc' = "sum"
    /\ UNCHANGED <<integrateFrame, err>>

\* lines 359-360: integrated_frames = np.sum(self.data, axis=(2, 3), out=out); return
IntegrateSum ==
    /\ op = "integrate"
    /\ pc = "sum"
    /\ LET r == NpSumAxes23(data, ret[1])
       IN  IF r.raised # NoError
           THEN /\ ret' = None
                /\ err' = r.raised
                /\ pc' = "failed"
           ELSE /\ ret' = Some([shape |-> r.shape, flat |-> r.flat])
                /\ err' = err
                /\ pc' = "done"
    /\ UNCHANGED integrateFrame

IntegrateNext == IntegrateAlloc \/ IntegrateSum

IntegrateSpec == IntegrateInit /\ [][IntegrateNext]_vars

(***************************************************************************)
(* Properties.                                                             *)
(***************************************************************************)
Max(a, b) == IF a < b THEN b ELSE a

\* the moments of the volume the reader holds for scan id x
LayerMoments(x) == PropertiesMoments(Store[x], Store[x].motors)

\* every scan id of the call can be loaded and its motors fit its volume
AllLoadable ==
    \A k \in DOMAIN scan_ids :
        /\ scan_ids[k] \in DOMAIN Store
        /\ ShapesAgree(Store[scan_ids[k]], Store[scan_ids[k]].motors)

\* the stacks of the per-layer moments of scan_ids[1..n], in input order
ExpectedMean3d(n) == [k \in 1..n |-> LayerMoments(scan_ids[k]).mean]
ExpectedCovariance3d(n) == [k \in 1..n |-> LayerMoments(scan_ids[k]).covariance]

\* C1: when every load of a compile_layers call succeeds, the call returns
\* mean_3d and covariance_3d with one entry per scan id, entry k being the
\* moments of the volume loaded for scan_ids[k], in input order.
C1_Orig ==
    (/\ op = "compile_layers"
     /\ pc \in {"done", "failed"}
     /\ AllLoadable
     /\ readerRaised = NoError
     /\ err \notin {"IndexError", "ValueError"})
    => /\ pc = "done"
       /\ Len(mean_3d[1]) = Len(scan_ids)
       /\ Len(covariance_3d[1]) = Len(scan_ids)
       /\ threshold = ThresholdNone =>
             /\ mean_3d = Some(ExpectedMean3d(Len(scan_ids)))
             /\ covariance_3d = Some(ExpectedCovariance3d(Len(scan_ids)))

\* The part of C1 that the code keeps: a compile_layers call that returns
\* hands back the moments of its layers in input order, none dropped,
\* duplicated or reordered.
C1_OrderPreserved ==
    (op = "compile_layers" /\ pc = "done")
    => /\ mean_3d = Some(ExpectedMean3d(Len(scan_ids)))
       /\ covariance_3d = Some(ExpectedCovariance3d(Len(scan_ids)))

C1_Witness ==
    /\ op = "compile_layers"
    /\ pc = "done"
    /\ Len(scan_ids) = 2
    /\ scan_ids[1] # scan_ids[2]

\* C2: during compile_layers the buffer of layer i is released before the
\* reader produces the buffer of layer i+1: at most one raw buffer is alive.
C2_Orig ==
    (op = "compile_layers" /\ i >= 2 /\ pc \notin {"done", "failed"})
    => Cardinality(alive) <= 1

\* C3: with a threshold that is not None the background is subtracted from
\* the freshly loaded volume before the moments are computed, and the
\* compile completes with one moment pair per layer.
C3_Orig ==
    /\ (op = "compile_layers" /\ pc = "moments" /\ threshold.kind = "int")
       => data.flat = SubtractFlat(Store[scan_ids[i]].flat, threshold.v)
    /\ (/\ op = "compile_layers"
        /\ pc \in {"done", "failed"}
        /\ threshold # ThresholdNone
        /\ readerRaised = NoError
        /\ err \notin {"IndexError", "ValueError", "ShapeMismatch"})
       => /\ pc = "done"
          /\ Len(mean_3d[1]) = Len(scan_ids)
          /\ Len(covariance_3d[1]) = Len(scan_ids)

\* C4: subtract(V) replaces every element x of the uint16 buffer by
\* max(x, V) - V: nothing wraps around, elements <= V become 0, and the
\* clamp to V comes before the subtraction.
C4_ClipThenSubtract ==
    /\ (op = "subtract" /\ pc = "isub")
       => \A k \in DOMAIN data.flat : data.flat[k] = Max(params.flat[k], params.value)
    /\ (op = "subtract" /\ pc = "done")
       => \A k \in DOMAIN data.flat :
             /\ data.flat[k] = Max(params.flat[k], params.value) - params.value
             /\ data.flat[k] <= params.flat[k]
             /\ params.flat[k] <= params.value => data.flat[k] = 0

C4_Witness ==
    /\ op = "subtract"
    /\ pc = "done"
    /\ \E k \in DOMAIN params.flat : params.flat[k] < params.value
    /\ \E k \in DOMAIN params.flat : params.flat[k] > params.value

\* C5: a failure of the reader at layer k reaches the caller of
\* compile_layers unchanged; the reader is invoked once per scan id, in
\* order, never again for layer k and never for a later layer.
C5_ReaderFailurePropagates ==
    op = "compile_layers"
    => /\ Len(readerCalls) <= Len(scan_ids)
       /\ readerCalls = SubSeq(scan_ids, 1, Len(readerCalls))
       /\ readerRaised # NoError
          => /\ pc = "failed"
             /\ err = readerRaised
             /\ Len(readerCalls) = i

C5_Witness ==
    /\ op = "compile_layers"
    /\ pc = "failed"
    /\ readerRaised = "OSError"
    /\ i = 2

\* C6: when compile_layers fails on a layer k > 0, the moment pairs of the
\* k layers before it remain accessible to the caller.
C6_Orig ==
    (op = "compile_layers" /\ pc = "failed" /\ i > 1)
    => /\ mean_3d = Some(ExpectedMean3d(i - 1))
       /\ covariance_3d = Some(ExpectedCovariance3d(i - 1))

\* C6 as amended: the pairs collected before the failure are not handed over.
\* mean_3d and covariance_3d change only when compile_layers returns, so after
\* a failure they are what they were before the call; of the layers before
\* the failing one only the last is left, as the cached mean and covariance.
C6_FailureKeepsOldStacks ==
    [][/\ (op' = "compile_layers" /\ pc' # "done")
          => (mean_3d' = mean_3d /\ covariance_3d' = covariance_3d)
       /\ (op' = "compile_layers" /\ pc' = "failed" /\ i' > 1)
          => /\ mean' = Some(LayerMoments(scan_ids'[i' - 1]).mean)
             /\ covariance' = Some(LayerMoments(scan_ids'[i' - 1]).covariance)]_vars

C6_Witness ==
    /\ op = "compile_layers"
    /\ pc = "failed"
    /\ i > 1
    /\ mean_3d # None
    /\ mean_3d # Some(ExpectedMean3d(i - 1))

C8_Orig ==
    (/\ op = "estimate_mask"
     /\ pc = "done"
     /\ params.erosion_iterations = 0
     /\ params.dilation_iterations = 0
     /\ ~params.fill_holes)
    => \A p \in DOMAIN mask : mask[p] <=> (Integrate(data)[p] > params.threshold)

C10_EmptySampleIsError ==
    /\ (op = "estimate_background" /\ pc = "done") => noise # <<>>
    /\ (op = "estimate_background" /\ round = ROUNDS /\ noise = <<>> /\ pc # "loop")
       => (pc = "failed" /\ err = "ValueError")

C10_Witness ==
    /\ op = "estimate_background"
    /\ pc = "failed"
    /\ err = "ValueError"
    /\ round = ROUNDS
    /\ noise = <<>>

\* a roi (r1, r2, c1, c2) that lies inside the detector of the file
RoiInside(file, roi) ==
    /\ roi # <<>>
    /\ 0 <= roi[1] /\ roi[1] <= roi[2] /\ roi[2] <= file.rows
    /\ 0 <= roi[3] /\ roi[3] <= roi[4] /\ roi[4] <= file.cols

C12_SkipIffNone ==
    [][(op = "compile_layers" /\ pc = "threshold")
       => IF threshold = ThresholdNone
          THEN /\ pc' = "moments"
               /\ data' = data
               /\ motors' = motors
               /\ data'.flat = Store[scan_ids[i]].flat
               /\ data'.shape = Store[scan_ids[i]].shape
          ELSE FixedThreshold \/ AutoThreshold]_vars

C12_Witness ==
    /\ op = "compile_layers"
    /\ pc = "moments"
    /\ threshold = ThresholdNone
    /\ i = 2
    /\ data.flat = Store[scan_ids[2]].flat
    /\ scan_ids[1] # scan_ids[2]

\* C13: compile_layers processes the layers strictly one after another: the
\* reader is invoked exactly once per element of scan_ids, in input order;
\* per layer the steps are load, optional thresholding, moments, append; the
\* pair of layer i is appended before the load of layer i+1 starts; and
\* after the last layer the call terminates and returns the two stacks.
C13_Orig ==
    /\ op = "compile_layers"
       => /\ readerCalls = SubSeq(scan_ids, 1, Len(readerCalls))
          /\ pc = "load" => (Len(readerCalls) = i - 1 /\ Len(l_mean_3d) = i - 1)
          /\ pc \in {"bind", "threshold", "moments", "append"}
             => (Len(readerCalls) = i /\ Len(l_mean_3d) = i - 1)
    /\ (/\ op = "compile_layers"
        /\ pc \in {"done", "failed"}
        /\ AllLoadable
        /\ readerRaised = NoError
        /\ err \notin {"IndexError", "ValueError"})
       => /\ pc = "done"
          /\ readerCalls = scan_ids
          /\ Len(mean_3d[1]) = Len(scan_ids)
          /\ Len(covariance_3d[1]) = Len(scan_ids)

\* The part of C13 that the code keeps: the order of the steps.  The reader
\* is invoked for scan_ids in input order, once each; the load of layer i
\* starts with i-1 pairs appended; thresholding and moments of layer i lie
\* between its load and its append; a call that returns has read every scan
\* id once and returns one pair per scan id.
C13_StepsInOrder ==
    op = "compile_layers"
    => /\ readerCalls = SubSeq(scan_ids, 1, Len(readerCalls))
       /\ Len(l_covariance_3d) = Len(l_mean_3d)
       /\ pc = "load" => (Len(readerCalls) = i - 1 /\ Len(l_mean_3d) = i - 1)
       /\ pc \in {"bind", "threshold", "moments", "append"}
          => (Len(readerCalls) = i /\ Len(l_mean_3d) = i - 1)
       /\ pc = "return"
          => (readerCalls = scan_ids /\ Len(l_mean_3d) = Len(scan_ids))
       /\ pc = "done"
          => /\ readerCalls = scan_ids
             /\ Len(mean_3d[1]) = Len(scan_ids)
             /\ Len(covariance_3d[1]) = Len(scan_ids)

\* a <= b * sqrt(v) for integers a >= 0, b > 0, v >= 0
LeqTimesSqrt(a, b, v) ==
    LET q == a \div b
        r == a % b
    IN  IF q * q > v THEN FALSE
        ELSE IF (q + 1) * (q + 1) <= v THEN TRUE
        ELSE 2 * q * b * r + r * r <= b * b * (v - q * q)

\* np.abs(x) <= mu + 2 * 3.891 * std: x does not exceed the bound
WithinBound(x, s) ==
    LET d2 == 2 * Abs(x) - Median2(s)
    IN  IF d2 <= 0 THEN TRUE
        ELSE LeqTimesSqrt(d2 * Len(s) * 250, SIGMA1000, VarN2(s))

RECURSIVE RetainWithinBound(_, _)
RetainWithinBound(s, ref) ==
    IF s = <<>> THEN <<>>
    ELSE (IF WithinBound(Head(s), ref) THEN <<Head(s)>> ELSE <<>>)
         \o RetainWithinBound(Tail(s), ref)

\* C14: each rejection round of estimate_background retains exactly the
\* samples whose absolute value does not exceed median + 2*3.891*stddev of
\* the current sample; a sample lying on the bound is retained.
C14_Orig ==
    [][(op = "estimate_background" /\ pc = "loop" /\ round < ROUNDS)
       => noise' = RetainWithinBound(noise, noise)]_vars

\* C15: estimate_background draws its sample at random from the whole
\* flattened volume (any flat index can be sampled, the sampled positions
\* can differ between two calls on the same data) and is defined for the
\* volume whatever its number of elements: the draw itself never fails.
C15_Orig ==
    op = "estimate_background"
    => (pc # "sample" => (pc # "failed" /\ err # "IndexError"))

\* What the code does instead: the index is a permutation of
\* 0 .. sample_size-1, so the sample is always the first sample_size flat
\* elements, whatever the permutation; sorted, it is the same in every
\* call.  An element at a flat index >= sample_size is never sampled, and
\* a volume of fewer than sample_size elements ends in IndexError.
C15_SampleIsPrefix ==
    op = "estimate_background"
    => /\ (pc = "loop" /\ round = 0)
          => /\ Len(params.flat) >= sample_size
             /\ noise = np_sort(SubSeq(params.flat, 1, sample_size))
       /\ Len(params.flat) < sample_size
          => (pc = "sample" \/ (pc = "failed" /\ err = "IndexError"))
       /\ pc = "done"
          => value = NpMax(Reject(np_sort(SubSeq(params.flat, 1, sample_size)),
                                  ROUNDS)).value

C15_PrefixWitness ==
    /\ op = "estimate_background"
    /\ pc = "done"
    /\ Len(params.flat) = sample_size + 1
    /\ params.flat[sample_size + 1] = 9
    /\ value < 9

\* the sum of the counts of detector pixel p (from 1) over every motor
\* dimension: in C order they are the p-th block of the flattened volume
SumOverMotors(flat, shape, p) ==
    LET B == Prod(SubSeq(shape, 3, Len(shape)))
    IN  SumSeq(SubSeq(flat, (p - 1) * B + 1, p * B))

\* C16: integrate returns a 2D map of shape (R, C) whose entry (r, c) is the
\* sum of the counts of pixel (r, c) over all motor dimensions, for a 4D
\* volume and equally for a 5D volume, and leaves the volume as it was.
C16_Orig ==
    (op = "integrate" /\ pc \in {"done", "failed"})
    => /\ pc = "done"
       /\ ret[1].shape = <<data.shape[1], data.shape[2]>>
       /\ ret[1].flat = [p \in 1..(data.shape[1] * data.shape[2]) |->
                            SumOverMotors(params.flat, data.shape, p)]
       /\ data.flat = params.flat

\* What the code does: the reduction is over axes 2 and 3 only.  For a 4D
\* volume the claim holds as stated; for a 5D volume the reduction has
\* shape (R, C, M3), which the (R, C) output buffer does not take, and the
\* call ends in ValueError.  The volume is untouched either way.
C16_FourDimOnly ==
    (op = "integrate" /\ pc \in {"done", "failed"})
    => /\ data.flat = params.flat
       /\ IF Len(data.shape) = 4
          THEN /\ pc = "done"
               /\ ret[1].shape = <<data.shape[1], data.shape[2]>>
               /\ ret[1].flat = [p \in 1..(data.shape[1] * data.shape[2]) |->
                                    SumOverMotors(params.flat, data.shape, p)]
          ELSE pc = "failed" /\ err = "ValueError"

\* C17: when compile_layers returns for a non-empty scan_ids, mean_3d and
\* covariance_3d are the returned stacks, one entry per scan id of this call
\* whatever an earlier call left there (replaced, not extended); the cached
\* mean and covariance are the last entries of the stacks; and the resident
\* data and motors are those of the last scan id.
C17_ReturnLeavesConsistentState ==
    [][(op' = "compile_layers" /\ pc' = "done" /\ pc # "done" /\ scan_ids' # <<>>)
       => LET n == Len(scan_ids')
              last == scan_ids'[n]
          IN  /\ mean_3d' = Some(l_mean_3d)
              /\ covariance_3d' = Some(l_covariance_3d)
              /\ Len(mean_3d'[1]) = n
              /\ Len(covariance_3d'[1]) = n
              /\ mean_3d' = Some([k \in 1..n |-> LayerMoments(scan_ids'[k]).mean])
              /\ covariance_3d' =
                    Some([k \in 1..n |-> LayerMoments(scan_ids'[k]).covariance])
              /\ mean' = Some(mean_3d'[1][n])
              /\ covariance' = Some(covariance_3d'[1][n])
              /\ fresh'
              /\ data'.shape = Store[last].shape
              /\ motors' = Store[last].motors
              /\ threshold' = ThresholdNone => data'.flat = Store[last].flat
              /\ alive' = {data'.buf}]_vars

C17_Witness ==
    /\ op = "compile_layers"
    /\ pc = "done"
    /\ Len(scan_ids) = 2
    /\ scan_ids[1] # scan_ids[2]
    /\ Len(mean_3d[1]) = 2
    /\ mean = Some(mean_3d[1][2])
    /\ mean_3d[1][1] # mean_3d[1][2]
    /\ data.flat = Store[scan_ids[2]].flat

====
